---- MODULE Spec2Model ----
(***************************************************************************)
(* Global push-to-talk: the engine (src/src/app.rs), the Direct hotkey     *)
(* backend with its registry and rebind task (src/src/hotkey.rs,           *)
(* src/src/config.rs) and the audio bridge (src/src/pulse.rs), as one      *)
(* state machine.  The audio server, the OS hotkey facility and the user   *)
(* are the environment: their choices are nondeterministic.                *)
(***************************************************************************)
EXTENDS Integers, Sequences, FiniteSets, TLC

VARIABLES
    \* ---- App (src/src/app.rs:68-76)
    active,             \* App.active
    muted,              \* App.muted
    backend,            \* App.backend: "Loaded" or "Error"
    hk_descriptions,    \* App.hk_descriptions: HotKeyConfig<String>
    change_hotkey_tx,   \* App.change_hotkey_tx is Some
    recording_hotkey,   \* App.recording_hotkey: "None", "Trigger", "ToggleActive"
    appPc,              \* where the update call stands: "idle", inside set_virtual_mic, "exited"
    cmMic,              \* ChooseMicrophone in progress: its argument
    cmFirst,            \* ChooseMicrophone in progress: is_first_time
    taskq,              \* messages returned as Task::done, not yet delivered to update
    chan,               \* the stream::channel of hotkeys(): messages on their way to update
    \* ---- PulseAudioState and the audio server (src/src/pulse.rs)
    src_name,           \* PulseAudioState.src_name: "None" or a source name
    modules,            \* server: the loaded modules, in load order
    srvMute,            \* server: mute flag of the virtual source
    \* ---- Direct hotkey backend (src/src/hotkey.rs:105-166)
    hkPc,               \* hotkeys(): "start", "direct", "failed"
    config,             \* the Config behind the mutex
    disk,               \* the Config last written by confy::store
    registered,         \* accelerators registered with the OS hotkey facility
    lock,               \* the mutex: "free", "rebind", "dispatch"
    rbPc,               \* rebind task: "off", "setup", "setup_cs", "recv", "unreg", "unreg_cs"
    rbChange,           \* rebind task: the change it received
    changeq,            \* mpsc::channel(10) from the UI to the rebind task
    osq,                \* GlobalHotKeyEvent::receiver(): events the OS has reported
    dpPc,               \* dispatch loop: "off", "recv", "lock", "cs"
    dpEvent,            \* dispatch loop: the event it received
    down,               \* accelerators physically held down
    up,                 \* the listener has finished starting: the user acts from then on
    nFaults,            \* audio operations that failed or were rejected so far
    nRec,               \* hotkey recordings started so far
    \* ---- observers (history only, never read by an action's guard or effect)
    out,                \* what the last step of update did to the audio bridge: the
                        \* set_mute calls it issued, the result, the failures it reported
    lastCall,           \* argument of the most recent set_mute call: "None", "T", "F"
    lastIn,             \* the last message update processed: the hotkey event behind it, the
                        \* handler that returned it, and whether it repeats the event
                        \* of the message before it
    muteLog,            \* arguments of the set_mute calls since the run entered ScenarioB
    scen,               \* progress of the run along ScenarioB, or off
    paLog,              \* unload/load requests of the set_virtual_mic call in progress or last made
    svm,                \* the set_virtual_mic call in progress or last made: argument and outcome
    svmPrev,            \* the argument of the call before it when that one ran to its end
                        \* with every request served, else "None"
    rebinding,          \* TRUE from the unregister block until the next register block
    lastRebind,         \* the last change the rebind task applied: role, old and new accelerator
    \* ---- the audio server's sources and the microphone list (src/src/pulse.rs:167-199)
    sources,            \* server: the sources it reports, in its order
    input_devs,         \* what the last get_input_devices call returned
    \* ---- Portal hotkey backend (src/src/hotkey.rs:44-103)
    wl_hotkeys,         \* portal: the description it holds for each role's binding
    wlPc,               \* bindings-changed task: "off", "query", "wait", "ended"
    wlChanged,          \* WlHotKeysChangedEvent::receiver(): notifications not yet received
    nChanges,           \* edits of the bindings in the system's settings so far
    \* ---- more observers
    startCfg,           \* the Config that Config::load().unwrap_or_default() returned
    dpWas,              \* the role dpEvent's id was bound to when the dispatch loop received it
    lastDispatch,       \* the last event dispatched after the binding of its id had changed
                        \* since its receipt: the role then, the role now, the message sent
    rpt                 \* the hotkey event update processed last with nothing else since:
                        \* whether it repeats the event before it, and (active, muted)
                        \* as the repeat found them

vars == << active, muted, backend, hk_descriptions, change_hotkey_tx, recording_hotkey,
           appPc, cmMic, cmFirst, taskq, chan, src_name, modules, srvMute,
           hkPc, config, disk, registered, lock, rbPc, rbChange, changeq, osq,
           dpPc, dpEvent, down, up, nFaults, nRec,
           out, lastCall, lastIn, muteLog, scen, paLog, svm, svmPrev, rebinding, lastRebind,
           sources, input_devs, wl_hotkeys, wlPc, wlChanged, nChanges, startCfg, dpWas, lastDispatch,
           rpt >>

appVars == << active, muted, backend, hk_descriptions, change_hotkey_tx, recording_hotkey,
              appPc, cmMic, cmFirst >>
paVars  == << src_name, modules, srvMute >>
hkVars  == << hkPc, config, disk, registered, lock, rbPc, rbChange, changeq, osq,
              dpPc, dpEvent >>
obsVars == << out, lastCall, lastIn, muteLog, scen, paLog, svm, svmPrev, rebinding, lastRebind >>
srcVars == << sources, input_devs >>
wlVars  == << wl_hotkeys, wlPc, wlChanged, nChanges >>
histVars == << startCfg, dpWas, lastDispatch, rpt >>

----------------------------------------------------------------------------
\* Bounds of the model.
MaxPending == 2     \* key events, commands and messages on their way to update at one time
MaxRecordings == 1  \* hotkey recordings the user starts in one run
MaxFaults == 1      \* audio operations that fail or are rejected in one run
MaxSources == 3     \* sources the audio server reports
MaxChanges == 2     \* edits of the portal's bindings in one run
MaxRebinds == 2     \* hotkey recordings in one run of the rebind specification
MaxOver == 2        \* messages a burst may queue beyond the channel's buffer

\* Program constants.
ChanCap == 100      \* stream::channel(100, ..)

----------------------------------------------------------------------------
\* HotKey values: a modifier set and a key code.
HK(mods, key) == [mods |-> mods, key |-> key]
Insert == HK({}, "Insert")
CtrlSuperP == HK({"CONTROL", "SUPER"}, "KeyP")
F9 == HK({}, "F9")
HotKeys == {Insert, CtrlSuperP, F9}

\* HotKey::id(): one id per accelerator.
HotKeyId(hk) ==
    (IF "CONTROL" \in hk.mods THEN 4 ELSE 0) + (IF "SUPER" \in hk.mods THEN 8 ELSE 0)
    + (CASE hk.key = "Insert" -> 1 [] hk.key = "KeyP" -> 2 [] hk.key = "F9" -> 3)

\* HotKey::into_string(): modifiers in lower case, then the key code.
into_string(hk) ==
    (IF "CONTROL" \in hk.mods THEN "control+" ELSE "")
    \o (IF "SUPER" \in hk.mods THEN "super+" ELSE "")
    \o hk.key

\* What HotKey::from_str returns for a string it cannot parse.
ParseErr == HK({}, "Err")

\* The strings the recorder, the config file and into_string can hand to
\* HotKey::from_str, and what it makes of each.
Strings == {"Insert", "F9", "control+super+KeyP", "CTRL+SUPER+p", "CTRL", ""}
\* a parser that takes every string it does not know for F9
from_str_lenient(s) ==
    CASE s = "Insert" -> Insert
      [] s = "control+super+KeyP" -> CtrlSuperP
      [] s = "CTRL+SUPER+p" -> CtrlSuperP
      [] OTHER -> F9
from_str(s) ==
    CASE s = "Insert" -> Insert
      [] s = "F9" -> F9
      [] s = "control+super+KeyP" -> CtrlSuperP
      [] s = "CTRL+SUPER+p" -> CtrlSuperP
      [] OTHER -> ParseErr

\* HotKeyConfig<T>
HotKeyConfig(t, ta) == [trigger |-> t, toggle_active |-> ta]
\* defaults with the two roles exchanged
DefaultHotKeysSwapped == HotKeyConfig(CtrlSuperP, Insert)
DefaultHotKeys == HotKeyConfig(Insert, CtrlSuperP)
DefaultDescriptions == HotKeyConfig("", "")

\* Config: two optional strings.
Config(t, ta) == [trigger_hotkey |-> t, toggle_active_hotkey |-> ta]
ConfigDefault == Config("None", "None")

\* Config::hotkeys(): the stored accelerator when present and parseable, else the default.
ParseOr(opt, dflt) ==
    IF opt = "None" THEN dflt
    ELSE IF from_str(opt) = ParseErr THEN dflt ELSE from_str(opt)
ConfigHotkeys(c) ==
    HotKeyConfig(ParseOr(c.trigger_hotkey, DefaultHotKeys.trigger),
                 ParseOr(c.toggle_active_hotkey, DefaultHotKeys.toggle_active))

\* Config::store_hotkeys(): both fields become Some(into_string(..)).
StoreHotkeys(hks) == Config(into_string(hks.trigger), into_string(hks.toggle_active))


----------------------------------------------------------------------------
\* Messages.  A queue entry is a Msg with its argument, the hotkey event that
\* caused it (ev: role and edge, "" when none) and the message whose handler
\* returned it as a Task (by, "" when none).
Entry(t, a, ev, by) == [t |-> t, a |-> a, ev |-> ev, by |-> by]
NoArg == "-"
BoolTag(b) == IF b THEN "T" ELSE "F"

Mics == {"mic0", "mic1"}
\* what a wait on the poll loop can end with: IterateResult::Success until the
\* operation has left Running, or Quit/Err
IterateResults == IF nFaults < MaxFaults THEN {"Success", "Fail"} ELSE {"Success"}
Fault(res) == IF res = "Fail" THEN 1 ELSE 0

\* the last message update processed
Processed(ev, by, rep) == [ev |-> ev, by |-> by, rep |-> rep]

\* what one step of update did to the audio bridge
Output(calls, res, reports) == [calls |-> calls, res |-> res, reports |-> reports]
NoOut == Output(<< >>, "None", 0)

\* ---- the audio server's module list.  A module is a record; ours are the
\* module-remap-source modules whose argument names the virtual source.
VIRTUALMIC_NAME == "GlobalPushToTalkVirtualMicrophone"
Module(name, source_name, master) ==
    [name |-> name, source_name |-> source_name, master |-> master]
VirtualMic(master) == Module("module-remap-source", VIRTUALMIC_NAME, master)
ForeignRemap == Module("module-remap-source", "OtherRemap", "mic0")

\* the filter of remove_virtual_mic's callback (pulse.rs:79-89)
IsVirtualMic(i) == i.name = "module-remap-source" /\ i.source_name = VIRTUALMIC_NAME

IsNotVirtualMic(i) == ~IsVirtualMic(i)
OurModules(mods) == SelectSeq(mods, IsVirtualMic)

\* a removal that unloads nothing
remove_nothing(mods) == mods

\* ---- PulseAudioState::remove_virtual_mic (pulse.rs:70-109): every listed
\* module that passes the filter is unloaded; the others stay.
remove_virtual_mic_modules(mods) == SelectSeq(mods, IsNotVirtualMic)

UnloadRequests(mods) ==
    [k \in 1..Len(OurModules(mods)) |-> [op |-> "unload", master |-> OurModules(mods)[k].master]]

\* ---- PulseAudioState::set_mute (pulse.rs:146-165) against the server:
\* the request changes the source's flag when a virtual source exists; when the
\* poll loop fails the request may or may not have reached the server.
\* a server that ignores the request
ServerMuteIgnored(mods, old, mute, res, reached) == old
ServerMute(mods, old, mute, res, reached) ==
    IF mods # << >> /\ (res = "Success" \/ reached) THEN mute ELSE old

\* ---- PulseAudioState::get_input_devices (pulse.rs:167-199).  The server
\* reports its sources in its own order; a source may have no name ("None").
NoName == "None"
SourceNames == {"mic0", "mic1", VIRTUALMIC_NAME, NoName}
SourceLists == UNION { [1..n -> SourceNames] : n \in 0..MaxSources }
SourcesAtStart == << "mic0", "mic1" >>

\* a callback filter that lets every named source through
IsNamedSource(name) == name # NoName
\* the callback's filter (lines 175-180): the source has a name and it is not
\* the virtual microphone's
IsInputDevice(name) == name # NoName /\ name # VIRTUALMIC_NAME

\* what the callback has sent into the channel once the server has reported
\* its first k sources
SentNames(srcs, k) == SelectSeq(SubSeq(srcs, 1, k), IsInputDevice)

\* the Vec returned: when the poll loop fails the function returns before it
\* drains the channel (line 186); else it drains all the callback sent
get_input_devices(srcs, res) ==
    IF res = "Success" THEN SentNames(srcs, Len(srcs)) ELSE << >>

Listing(res, vec) == [res |-> res, vec |-> vec]
NoListing == Listing("None", << >>)

\* ---- App::set_muted (app.rs:190-200)
\* the value handed to set_mute (line 195)
set_mute_arg(act, m) == act /\ m
\* a commit that rolls back when set_mute fails, and one that flips the flag
set_muted_value_rollback(act, old, m, res) == IF res = "Success" THEN act /\ m ELSE old
set_muted_value_toggle(act, old, m, res) == act /\ ~old
\* the value stored in self.muted, whatever set_mute returned (line 199)
set_muted_value(act, old, m, res) == act /\ m
\* how often the call reports a failure (eprintln, lines 196-198)
set_muted_reports(res) == IF res # "Success" THEN 1 ELSE 0

set_muted(m) ==
    IF backend # "Loaded"
    THEN /\ UNCHANGED << appVars, paVars, nFaults, lastCall >>
         /\ out' = NoOut
    ELSE \E res \in IterateResults, reached \in BOOLEAN :
         /\ (res = "Success" => reached)
         /\ srvMute' = ServerMute(OurModules(modules), srvMute,
                                  set_mute_arg(active, m), res, reached)
         /\ out' = Output(<< set_mute_arg(active, m) >>, res, set_muted_reports(res))
         /\ lastCall' = BoolTag(set_mute_arg(active, m))
         /\ muted' = set_muted_value(active, muted, m, res)
         /\ nFaults' = nFaults + Fault(res)
         /\ UNCHANGED << active, backend, hk_descriptions, change_hotkey_tx,
                         recording_hotkey, appPc, cmMic, cmFirst,
                         src_name, modules >>

\* a follow-up that always asks to mute
set_active_followup_muted(a) == Entry("SetMuted", TRUE, "", "SetActive" \o BoolTag(a))

\* a set_active that does not look at the backend
set_active_unguarded(a) ==
    /\ active' = a
    /\ UNCHANGED << muted, backend, hk_descriptions, change_hotkey_tx,
                    recording_hotkey, appPc, cmMic, cmFirst >>
    /\ UNCHANGED << paVars, nFaults >>

\* ---- App::set_active (app.rs:202-213)
set_active_followup(a) == Entry("SetMuted", a, "", "SetActive" \o BoolTag(a))

set_active(a) ==
    /\ IF backend # "Loaded"
       THEN UNCHANGED appVars
       ELSE /\ active' = a
            /\ UNCHANGED << muted, backend, hk_descriptions, change_hotkey_tx,
                            recording_hotkey, appPc, cmMic, cmFirst >>
    /\ UNCHANGED << paVars, nFaults >>

\* a toggle that asks for the state the engine is already in
toggle_active_followup_same(act) == Entry("SetActive", act, "", "ToggleActive")

\* ---- Msg::ToggleActive (app.rs:166)
toggle_active_followup(act) == Entry("SetActive", ~act, "", "ToggleActive")

toggle_active ==
    /\ UNCHANGED << appVars, paVars, nFaults >>

\* ---- App::global_shortcuts_fail (app.rs:185-188)
global_shortcuts_fail ==
    /\ backend' = "Error"
    /\ UNCHANGED << active, muted, hk_descriptions, change_hotkey_tx,
                    recording_hotkey, appPc, cmMic, cmFirst >>
    /\ UNCHANGED << paVars, nFaults >>

\* ---- App::choose_microphone (app.rs:215-229): the call enters set_virtual_mic
choose_microphone(mic) ==
    /\ IF backend # "Loaded"
       THEN UNCHANGED appVars
       ELSE /\ cmFirst' = (src_name = "None")
            /\ cmMic' = mic
            /\ appPc' = "svm_remove"
            /\ UNCHANGED << active, muted, backend, hk_descriptions, change_hotkey_tx,
                            recording_hotkey >>
    /\ UNCHANGED << paVars, nFaults >>

\* a set_virtual_mic call as the observers record it: its argument, whether
\* the module list was served, whether the server loaded the module, and how
\* far the call ran ("running", "early": it returned from the wait, "full")
Call(mic, removed, loaded, ret) ==
    [mic |-> mic, removed |-> removed, loaded |-> loaded, ret |-> ret]
NoCall == Call("None", FALSE, FALSE, "none")
Nominal(call) == call.removed /\ call.loaded /\ call.ret = "full"

\* ---- set_virtual_mic (pulse.rs:111-140), first step: remove_virtual_mic
SvmRemove ==
    /\ appPc = "svm_remove"
    /\ \E res \in IterateResults, reached \in BOOLEAN :
         /\ (res = "Success" => reached)
         /\ modules' = IF reached THEN remove_virtual_mic_modules(modules) ELSE modules
         /\ paLog' = IF reached THEN UnloadRequests(modules) ELSE << >>
         /\ svm' = Call(cmMic, reached, FALSE, "running")
         /\ nFaults' = nFaults + Fault(res)
    /\ svmPrev' = IF Nominal(svm) THEN svm.mic ELSE "None"
    /\ appPc' = "svm_load"
    /\ UNCHANGED << active, muted, backend, hk_descriptions, change_hotkey_tx,
                    recording_hotkey, cmMic, cmFirst, taskq, chan, src_name, srvMute >>
    /\ UNCHANGED << hkVars, down, up, nRec, out, lastCall, lastIn, muteLog, scen,
                    rebinding, lastRebind >>
    /\ UNCHANGED << srcVars, wlVars, histVars >>

\* a load that ignores its argument
load_module_fixed(source_name) == VirtualMic("mic0")
\* the module load_module asks for (pulse.rs:116-124)
load_module_request(source_name) == VirtualMic(source_name)

\* a choice that never enables push-to-talk
choose_microphone_task_none(first) == << >>
\* the Task choose_microphone returns (app.rs:224-228)
choose_microphone_task(first) ==
    IF first THEN << Entry("SetActive", TRUE, "", "ChooseMicrophone") >> ELSE << >>

\* ---- set_virtual_mic, second step: load_module and the wait for it.  The
\* server accepts or rejects the module; the poll loop succeeds or fails.
SvmLoad ==
    /\ appPc = "svm_load"
    /\ \E res \in IterateResults, loaded \in BOOLEAN :
         /\ (~loaded => nFaults < MaxFaults)
         /\ nFaults' = IF res = "Success" /\ loaded THEN nFaults ELSE nFaults + 1
         /\ modules' = IF loaded THEN Append(modules, load_module_request(cmMic)) ELSE modules
         /\ srvMute' = IF loaded THEN FALSE ELSE srvMute
         /\ paLog' = IF res = "Success" \/ loaded
                     THEN Append(paLog, [op |-> "load", master |-> cmMic]) ELSE paLog
         /\ IF res = "Success"
            THEN /\ appPc' = "svm_mute"
                 /\ svm' = Call(svm.mic, svm.removed, loaded, "running")
                 /\ UNCHANGED << taskq, cmMic, cmFirst >>
            ELSE /\ appPc' = "idle"
                 /\ taskq' = taskq \o choose_microphone_task(cmFirst)
                 /\ svm' = Call(svm.mic, svm.removed, loaded, "early")
                 /\ cmMic' = "None" /\ cmFirst' = FALSE
    /\ UNCHANGED << active, muted, backend, hk_descriptions, change_hotkey_tx,
                    recording_hotkey, chan, src_name >>
    /\ UNCHANGED << hkVars, down, up, nRec, out, lastCall, lastIn, muteLog, scen,
                    svmPrev, rebinding, lastRebind >>
    /\ UNCHANGED << srcVars, wlVars, histVars >>

\* ---- set_virtual_mic, last step (pulse.rs:134-138): set_mute(true), its
\* result dropped, and the source recorded; then choose_microphone returns its Task.
SvmMute ==
    /\ appPc = "svm_mute"
    /\ \E res \in IterateResults, reached \in BOOLEAN :
         /\ (res = "Success" => reached)
         /\ srvMute' = ServerMute(OurModules(modules), srvMute, TRUE, res, reached)
         /\ out' = Output(<< TRUE >>, res, 0)
         /\ nFaults' = nFaults + Fault(res)
    /\ lastCall' = "T"
    /\ src_name' = cmMic
    /\ appPc' = "idle"
    /\ taskq' = taskq \o choose_microphone_task(cmFirst)
    /\ svm' = Call(svm.mic, svm.removed, svm.loaded, "full")
    /\ cmMic' = "None" /\ cmFirst' = FALSE
    /\ UNCHANGED << active, muted, backend, hk_descriptions, change_hotkey_tx,
                    recording_hotkey, chan, modules >>
    /\ UNCHANGED << hkVars, down, up, nRec, lastIn, muteLog, scen, paLog, svmPrev,
                    rebinding, lastRebind >>
    /\ UNCHANGED << srcVars, wlVars, histVars >>

\* ---- App::exit (app.rs:297-302)
exit ==
    /\ IF backend = "Loaded"
       THEN \E res \in IterateResults, reached \in BOOLEAN :
              /\ (res = "Success" => reached)
              /\ modules' = IF reached THEN remove_virtual_mic_modules(modules) ELSE modules
              /\ nFaults' = nFaults + Fault(res)
       ELSE UNCHANGED << modules, nFaults >>
    /\ appPc' = "exited"
    /\ UNCHANGED << active, muted, backend, hk_descriptions, change_hotkey_tx,
                    recording_hotkey, cmMic, cmFirst, src_name, srvMute >>

\* ---- App::finish_hotkey_recording (app.rs:231-258)
\* the current hotkeys as the UI knows them, from the descriptions
DescribedHotkeys(d) ==
    HotKeyConfig(IF from_str(d.trigger) = ParseErr THEN DefaultHotKeys.trigger
                 ELSE from_str(d.trigger),
                 IF from_str(d.toggle_active) = ParseErr THEN DefaultHotKeys.toggle_active
                 ELSE from_str(d.toggle_active))
\* with the recorded accelerator in the recorded role
RecordedHotkeys(d, role, new_hk) ==
    IF role = "Trigger"
    THEN HotKeyConfig(new_hk, DescribedHotkeys(d).toggle_active)
    ELSE HotKeyConfig(DescribedHotkeys(d).trigger, new_hk)
\* a recording that sends its change whether or not there is a sender
finish_hotkey_recording_sends_anyway(rec, s, d, tx) ==
    IF rec = "None" \/ from_str(s) = ParseErr THEN << >>
    ELSE << [trigger |-> RecordedHotkeys(d, rec, from_str(s)).trigger,
             toggle_active |-> RecordedHotkeys(d, rec, from_str(s)).toggle_active,
             role |-> rec] >>
\* a change on its way to the rebind task: the HotKeyConfig, with the role
\* the user recorded
Change(hks, role) ==
    [trigger |-> hks.trigger, toggle_active |-> hks.toggle_active, role |-> role]
NoChange == Change(HotKeyConfig(ParseErr, ParseErr), "None")
\* what is sent to the rebind task: nothing, or one change
finish_hotkey_recording_sends(rec, s, d, tx) ==
    IF rec = "None" \/ from_str(s) = ParseErr \/ ~tx THEN << >>
    ELSE << Change(RecordedHotkeys(d, rec, from_str(s)), rec) >>

finish_hotkey_recording(s) ==
    /\ recording_hotkey' = "None"
    /\ changeq' = changeq \o finish_hotkey_recording_sends(recording_hotkey, s,
                                                            hk_descriptions, change_hotkey_tx)
    /\ UNCHANGED << active, muted, backend, hk_descriptions, change_hotkey_tx,
                    appPc, cmMic, cmFirst >>
    /\ UNCHANGED << paVars, nFaults >>

\* ---- handlers that change one field only
update_hk_descriptions(d) ==
    /\ hk_descriptions' = d
    /\ UNCHANGED << active, muted, backend, change_hotkey_tx, recording_hotkey,
                    appPc, cmMic, cmFirst >>
    /\ UNCHANGED << paVars, nFaults >>
init_change_hotkey_tx ==
    /\ change_hotkey_tx' = TRUE
    /\ UNCHANGED << active, muted, backend, hk_descriptions, recording_hotkey,
                    appPc, cmMic, cmFirst >>
    /\ UNCHANGED << paVars, nFaults >>
start_hotkey_recording(r) ==
    /\ recording_hotkey' = r
    /\ UNCHANGED << active, muted, backend, hk_descriptions, change_hotkey_tx,
                    appPc, cmMic, cmFirst >>
    /\ UNCHANGED << paVars, nFaults >>
\* a handler that switches push-to-talk on
no_effect_activates == set_active(TRUE)
no_effect ==
    /\ UNCHANGED << appVars, paVars, nFaults >>

\* ---- App::update (app.rs:161-183).  update(m) changes the App, the audio
\* state and the channel to the rebind task; update_tasks(m) is the Task it
\* returns, as the messages the runtime will deliver later.
update_tasks(m) ==
    CASE m.t = "SetActive" /\ backend = "Loaded" -> << set_active_followup(m.a) >>
      [] m.t = "ToggleActive" -> << toggle_active_followup(active) >>
      [] OTHER -> << >>

update(m) ==
    /\ CASE m.t = "ChooseMicrophone" -> choose_microphone(m.a) /\ UNCHANGED changeq
         [] m.t = "SetActive" -> set_active(m.a) /\ UNCHANGED changeq
         [] m.t = "ToggleActive" -> toggle_active /\ UNCHANGED changeq
         [] m.t = "SetMuted" -> set_muted(m.a) /\ UNCHANGED changeq
         [] m.t = "GlobalShortcutsFail" -> global_shortcuts_fail /\ UNCHANGED changeq
         [] m.t = "UpdateHotKeyDescriptions" -> update_hk_descriptions(m.a) /\ UNCHANGED changeq
         [] m.t = "InitChangeHotKeyTX" -> init_change_hotkey_tx /\ UNCHANGED changeq
         [] m.t = "StartHotKeyRecording" -> start_hotkey_recording(m.a) /\ UNCHANGED changeq
         [] m.t = "FinishHotKeyRecording" -> finish_hotkey_recording(m.a)
         [] m.t = "Exit" -> exit /\ UNCHANGED changeq
         [] OTHER -> no_effect /\ UNCHANGED changeq   \* None, ShowWindow, Close, SetTheme
    /\ IF m.t = "SetMuted" THEN TRUE ELSE out' = NoOut /\ UNCHANGED lastCall
    /\ lastIn' = Processed(m.ev, m.by, m.ev # "" /\ m.ev = lastIn.ev)

----------------------------------------------------------------------------
\* The hotkey listener (src/src/hotkey.rs).
Running == appPc # "exited"

Event(id, state) == [id |-> id, state |-> state]
NoEvent == Event(0, "None")

\* the role whose accelerator has the event's id under the bindings hks
BoundRole(event, hks) ==
    IF event.id = HotKeyId(hks.trigger) THEN "Trigger"
    ELSE IF event.id = HotKeyId(hks.toggle_active) THEN "ToggleActive" ELSE "None"

\* a dispatch as the observers record it
Dispatched(event, was, now, sent) ==
    [event |-> event, was |-> was, now |-> now, sent |-> sent]
NoDispatch == Dispatched(NoEvent, "None", "None", << >>)

\* ids taken from the default bindings, whatever the config holds
HotkeyIdsAtStart(c) ==
    HotKeyConfig(HotKeyId(DefaultHotKeys.trigger), HotKeyId(DefaultHotKeys.toggle_active))
\* the ids the dispatch loop compares with (hotkey.rs:158-162)
HotkeyIds(c) ==
    HotKeyConfig(HotKeyId(ConfigHotkeys(c).trigger), HotKeyId(ConfigHotkeys(c).toggle_active))

\* the role an id resolves to, in the order handle_hotkey_press compares
RoleOf(id, ids) ==
    IF id = ids.trigger THEN "Trigger"
    ELSE IF id = ids.toggle_active THEN "ToggleActive" ELSE "None"

\* a routing that compares with the ToggleActive id first
handle_hotkey_press_toggle_first(event, hotkey_ids) ==
    IF event.id = hotkey_ids.toggle_active /\ event.state = "Pressed"
    THEN << Entry("ToggleActive", NoArg, "ToggleActive" \o event.state, "") >>
    ELSE IF event.id = hotkey_ids.trigger
    THEN << Entry("SetMuted", event.state = "Released", "Trigger" \o event.state, "") >>
    ELSE << >>

\* ---- handle_hotkey_press (hotkey.rs:168-183): the message sent, if any
handle_hotkey_press(event, hotkey_ids) ==
    IF event.id = hotkey_ids.trigger
    THEN << Entry("SetMuted", event.state = "Released",
                  RoleOf(event.id, hotkey_ids) \o event.state, "") >>
    ELSE IF event.id = hotkey_ids.toggle_active /\ event.state = "Pressed"
    THEN << Entry("ToggleActive", NoArg, RoleOf(event.id, hotkey_ids) \o event.state, "") >>
    ELSE << >>

\* a send that gives up when the buffer is full
send_if_room(q, msgs) == IF Len(q) >= ChanCap THEN q ELSE q \o msgs

\* ---- tx.send(msg).now_or_never() on the clone handle_hotkey_press is given
\* (hotkey.rs:163, 174-182).  The future is polled once and dropped.  The
\* channel of stream::channel is a futures mpsc channel: its capacity is the
\* buffer plus one slot for each sender, and a sender that has not been
\* parked (a clone just made never has) is ready at once, so the one poll
\* puts the message in the queue whatever the queue holds; with the buffer
\* full the clone is parked after the push and the future is pending when it
\* is dropped.  The loop goes on in either case.
send_now_or_never(q, msgs) == q \o msgs

\* ---- hotkeys() (hotkey.rs:185-202): GlobalHotKeyManager::new() fails
HotkeysFail ==
    /\ Running /\ hkPc = "start"
    /\ hkPc' = "failed"
    /\ chan' = Append(chan, Entry("GlobalShortcutsFail", NoArg, "", ""))
    /\ up' = TRUE
    /\ UNCHANGED << appVars, taskq, paVars, config, disk, registered, lock, rbPc, rbChange,
                    changeq, osq, dpPc, dpEvent, down, nFaults, nRec, obsVars >>
    /\ UNCHANGED << srcVars, wlVars, histVars >>

\* ---- hotkeys() into hotkeys_non_wl (hotkey.rs:105-116): the sender goes to
\* the UI, the config is loaded, the rebind task and the dispatch loop start
HotkeysStart ==
    /\ Running /\ hkPc = "start"
    /\ hkPc' = "direct"
    /\ chan' = Append(chan, Entry("InitChangeHotKeyTX", NoArg, "", ""))
    /\ config' = disk
    /\ rbPc' = "setup"
    /\ dpPc' = "recv"
    /\ UNCHANGED << appVars, taskq, paVars, disk, registered, lock, rbChange,
                    changeq, osq, dpEvent, down, up, nFaults, nRec, obsVars >>
    /\ startCfg' = disk
    /\ UNCHANGED << srcVars, wlVars, dpWas, lastDispatch, rpt >>

\* ---- rebind task, register block (hotkey.rs:119-137)
RebindSetupLock ==
    /\ Running /\ rbPc = "setup" /\ lock = "free"
    /\ lock' = "rebind"
    /\ rbPc' = "setup_cs"
    /\ UNCHANGED << appVars, taskq, chan, paVars, hkPc, config, disk, registered, rbChange,
                    changeq, osq, dpPc, dpEvent, down, up, nFaults, nRec, obsVars >>
    /\ UNCHANGED << srcVars, wlVars, histVars >>

\* the accelerators registered after the block
register_both(reg, hks) == reg \cup {hks.trigger, hks.toggle_active}
\* the descriptions published to the UI
published_descriptions(hks) ==
    HotKeyConfig(into_string(hks.trigger), into_string(hks.toggle_active))

\* the accelerators registered when the facility accepts only some: a
\* rejected gh.register returns Err, which the block drops (let _ =)
register_accepted(reg, hks, ok_t, ok_ta) ==
    reg \cup (IF ok_t THEN {hks.trigger} ELSE {}) \cup (IF ok_ta THEN {hks.toggle_active} ELSE {})

\* the block, leaving reg registered
RegisterBlock(reg) ==
    /\ Running /\ rbPc = "setup_cs"
    /\ Len(chan) < ChanCap
    /\ registered' = reg
    /\ chan' = Append(chan, Entry("UpdateHotKeyDescriptions",
                                  published_descriptions(ConfigHotkeys(config)), "", ""))
    /\ config' = StoreHotkeys(ConfigHotkeys(config))
    /\ disk' = StoreHotkeys(ConfigHotkeys(config))
    /\ lock' = "free"
    /\ rbPc' = "recv"
    /\ rebinding' = FALSE
    /\ up' = TRUE
    /\ UNCHANGED << appVars, taskq, paVars, hkPc, rbChange, changeq, osq, dpPc, dpEvent,
                    down, nFaults, nRec, out, lastCall, lastIn, muteLog, scen, paLog, svm, svmPrev,
                    lastRebind >>
    /\ UNCHANGED << srcVars, wlVars, histVars >>

\* the facility accepts both registrations
RebindSetup ==
    RegisterBlock(register_both(registered, ConfigHotkeys(config)))

\* the facility rejects at least one of them
RebindSetupRejected ==
    \E ok_t, ok_ta \in BOOLEAN :
        /\ ~(ok_t /\ ok_ta)
        /\ RegisterBlock(register_accepted(registered, ConfigHotkeys(config), ok_t, ok_ta))

\* ---- rebind task, change_hotkey_rx.recv() (hotkey.rs:140)
RebindRecv ==
    /\ Running /\ rbPc = "recv" /\ changeq # << >>
    /\ rbChange' = Head(changeq)
    /\ changeq' = Tail(changeq)
    /\ rbPc' = "unreg"
    /\ UNCHANGED << appVars, taskq, chan, paVars, hkPc, config, disk, registered, lock,
                    osq, dpPc, dpEvent, down, up, nFaults, nRec, obsVars >>
    /\ UNCHANGED << srcVars, wlVars, histVars >>

\* ---- rebind task, unregister block (hotkey.rs:141-147)
RebindUnregLock ==
    /\ Running /\ rbPc = "unreg" /\ lock = "free"
    /\ lock' = "rebind"
    /\ rbPc' = "unreg_cs"
    /\ UNCHANGED << appVars, taskq, chan, paVars, hkPc, config, disk, registered, rbChange,
                    changeq, osq, dpPc, dpEvent, down, up, nFaults, nRec, obsVars >>
    /\ UNCHANGED << srcVars, wlVars, histVars >>

\* an unregister block that leaves the old accelerators registered
unregister_none(reg, hks) == reg
unregister_both(reg, hks) == reg \ {hks.trigger, hks.toggle_active}

\* the accelerator a HotKeyConfig gives a role
Accelerator(hks, role) == IF role = "Trigger" THEN hks.trigger ELSE hks.toggle_active
Rebind(role, old, new) == [role |-> role, old |-> old, new |-> new]
NoRebind == Rebind("None", ParseErr, ParseErr)

RebindUnregister ==
    /\ Running /\ rbPc = "unreg_cs"
    /\ registered' = unregister_both(registered, ConfigHotkeys(config))
    /\ config' = StoreHotkeys(rbChange)
    /\ disk' = StoreHotkeys(rbChange)
    /\ rbChange' = NoChange
    /\ lock' = "free"        \* the guard is dropped at the end of the if-let block
    /\ rbPc' = "setup"
    /\ rebinding' = TRUE
    /\ lastRebind' = Rebind(rbChange.role,
                            Accelerator(ConfigHotkeys(config), rbChange.role),
                            Accelerator(rbChange, rbChange.role))
    /\ UNCHANGED << appVars, taskq, chan, paVars, hkPc, changeq, osq, dpPc, dpEvent,
                    down, up, nFaults, nRec, out, lastCall, lastIn, muteLog, scen, paLog,
                    svm, svmPrev >>
    /\ UNCHANGED << srcVars, wlVars, histVars >>

\* ---- dispatch loop (hotkey.rs:154-165)
DispatchRecv ==
    /\ Running /\ dpPc = "recv" /\ osq # << >>
    /\ dpEvent' = Head(osq)
    /\ osq' = Tail(osq)
    /\ dpPc' = "lock"
    /\ UNCHANGED << appVars, taskq, chan, paVars, hkPc, config, disk, registered, lock,
                    rbPc, rbChange, changeq, down, up, nFaults, nRec, obsVars >>
    /\ dpWas' = BoundRole(Head(osq), ConfigHotkeys(config))
    /\ UNCHANGED << srcVars, wlVars, startCfg, lastDispatch, rpt >>

DispatchLock ==
    /\ Running /\ dpPc = "lock" /\ lock = "free"
    /\ lock' = "dispatch"
    /\ dpPc' = "cs"
    /\ UNCHANGED << appVars, taskq, chan, paVars, hkPc, config, disk, registered,
                    rbPc, rbChange, changeq, osq, dpEvent, down, up, nFaults, nRec, obsVars >>
    /\ UNCHANGED << srcVars, wlVars, histVars >>

DispatchHandle ==
    /\ Running /\ dpPc = "cs"
    /\ chan' = send_now_or_never(chan, handle_hotkey_press(dpEvent, HotkeyIds(config)))
    /\ dpEvent' = NoEvent
    /\ lock' = "free"
    /\ dpPc' = "recv"
    /\ UNCHANGED << appVars, taskq, paVars, hkPc, config, disk, registered,
                    rbPc, rbChange, changeq, osq, down, up, nFaults, nRec, obsVars >>
    /\ lastDispatch' =
           IF dpWas = BoundRole(dpEvent, ConfigHotkeys(config)) THEN lastDispatch
           ELSE Dispatched(dpEvent, dpWas, BoundRole(dpEvent, ConfigHotkeys(config)),
                           handle_hotkey_press(dpEvent, HotkeyIds(config)))
    /\ dpWas' = "None"
    /\ UNCHANGED << srcVars, wlVars, startCfg, rpt >>

\* ---- the OS hotkey facility: a registered accelerator going down or up
\* is reported; an unregistered one is not.
Reported(hk, state) == IF hk \in registered THEN << Event(HotKeyId(hk), state) >> ELSE << >>

\* events and messages on their way to update
Pending ==
    Len(osq) + Len(chan) + Len(taskq) + (IF dpPc \in {"lock", "cs"} THEN 1 ELSE 0) + wlChanged

KeyPress ==
    /\ Running /\ Pending < MaxPending
    /\ \E hk \in HotKeys :
         /\ hk \notin down
         /\ down' = down \cup {hk}
         /\ osq' = osq \o Reported(hk, "Pressed")
    /\ UNCHANGED << appVars, taskq, chan, paVars, hkPc, config, disk, registered, lock,
                    rbPc, rbChange, changeq, dpPc, dpEvent, up, nFaults, nRec, obsVars >>
    /\ UNCHANGED << srcVars, wlVars, histVars >>

KeyRelease ==
    /\ Running /\ Pending < MaxPending
    /\ \E hk \in down :
         /\ down' = down \ {hk}
         /\ osq' = osq \o Reported(hk, "Released")
    /\ UNCHANGED << appVars, taskq, chan, paVars, hkPc, config, disk, registered, lock,
                    rbPc, rbChange, changeq, dpPc, dpEvent, up, nFaults, nRec, obsVars >>
    /\ UNCHANGED << srcVars, wlVars, histVars >>

\* a held accelerator reported as pressed again (key repeat)
KeyRepeat ==
    /\ Running /\ Pending < MaxPending
    /\ \E hk \in down \cap registered :
         osq' = Append(osq, Event(HotKeyId(hk), "Pressed"))
    /\ UNCHANGED << appVars, taskq, chan, paVars, hkPc, config, disk, registered, lock,
                    rbPc, rbChange, changeq, dpPc, dpEvent, down, up, nFaults, nRec, obsVars >>
    /\ UNCHANGED << srcVars, wlVars, histVars >>

\* ---- a burst: the Trigger accelerator goes down and up again and again,
\* each edge reported as soon as the dispatch loop is back at its receive,
\* however many messages update has yet to take from the channel
TriggerBurst ==
    /\ Running /\ hkPc = "direct" /\ rbPc = "recv"
    /\ dpPc = "recv" /\ osq = << >>
    /\ Len(chan) < ChanCap + MaxOver
    /\ IF ConfigHotkeys(config).trigger \in down
       THEN /\ down' = down \ {ConfigHotkeys(config).trigger}
            /\ osq' = Reported(ConfigHotkeys(config).trigger, "Released")
       ELSE /\ down' = down \cup {ConfigHotkeys(config).trigger}
            /\ osq' = Reported(ConfigHotkeys(config).trigger, "Pressed")
    /\ UNCHANGED << appVars, taskq, chan, paVars, hkPc, config, disk, registered, lock,
                    rbPc, rbChange, changeq, dpPc, dpEvent, up, nFaults, nRec, obsVars >>
    /\ UNCHANGED << srcVars, wlVars, histVars >>

\* ---- one iteration of the dispatch loop taken as a single step: a registered
\* accelerator goes down, up, or repeats, the event is received, resolved
\* against the config and sent (hotkey.rs:156-163).  It is the step of the
\* engine's specification, where nothing else holds the mutex.
HotkeyEvent ==
    /\ Running /\ Pending < MaxPending
    /\ dpPc = "recv" /\ osq = << >> /\ lock = "free"
    /\ \E hk \in registered, kind \in {"Press", "Release", "Repeat"} :
         /\ (kind = "Press") = (hk \notin down)
         /\ down' = IF kind = "Press" THEN down \cup {hk}
                    ELSE IF kind = "Release" THEN down \ {hk} ELSE down
         /\ chan' = send_now_or_never(chan, handle_hotkey_press(
                        Event(HotKeyId(hk), IF kind = "Release" THEN "Released" ELSE "Pressed"),
                        HotkeyIds(config)))
    /\ UNCHANGED << appVars, taskq, paVars, hkVars, up, nFaults, nRec, obsVars >>
    /\ UNCHANGED << srcVars, wlVars, histVars >>

\* ---- the same for the Trigger accelerator alone: pressed, repeated, released
TriggerEvent ==
    /\ Running /\ Pending < MaxPending
    /\ dpPc = "recv" /\ osq = << >> /\ lock = "free"
    /\ ConfigHotkeys(config).trigger \in registered
    /\ \E kind \in {"Press", "Release", "Repeat"} :
         /\ (kind = "Press") = (ConfigHotkeys(config).trigger \notin down)
         /\ down' = IF kind = "Press" THEN down \cup {ConfigHotkeys(config).trigger}
                    ELSE IF kind = "Release" THEN down \ {ConfigHotkeys(config).trigger}
                    ELSE down
         /\ chan' = send_now_or_never(chan, handle_hotkey_press(
                        Event(HotKeyId(ConfigHotkeys(config).trigger),
                              IF kind = "Release" THEN "Released" ELSE "Pressed"),
                        HotkeyIds(config)))
    /\ UNCHANGED << appVars, taskq, paVars, hkVars, up, nFaults, nRec, obsVars >>
    /\ UNCHANGED << srcVars, wlVars, histVars >>

\* ---- the dispatch loop's blocking receive fails (hotkey.rs:156): the loop
\* ends, hotkeys_non_wl returns Ok(()) and hotkeys() sends nothing (lines 165, 198)
DispatchRecvFails ==
    /\ Running /\ hkPc = "direct" /\ dpPc = "recv"
    /\ dpPc' = "ended"
    /\ hkPc' = "ended"
    /\ UNCHANGED << appVars, taskq, chan, paVars, config, disk, registered, lock,
                    rbPc, rbChange, changeq, osq, dpEvent, down, up, nFaults, nRec, obsVars >>
    /\ UNCHANGED << srcVars, wlVars, histVars >>

----------------------------------------------------------------------------
\* The Portal backend (hotkeys_wl, hotkey.rs:44-103).
WL_TRIGGER_ID == 0
WL_TOGGLE_ACTIVE_ID == 1
WlHotkeyIds == HotKeyConfig(WL_TRIGGER_ID, WL_TOGGLE_ACTIVE_ID)

\* what gh.wl_get_hotkeys() returns: one entry per action, with the portal's
\* description of its binding
WlHotKey(id, description) == [id |-> id, description |-> description]
WlDescriptions == {"<Insert>", "<F9>"}
WlBindings == { << WlHotKey(WL_TRIGGER_ID, dt), WlHotKey(WL_TOGGLE_ACTIVE_ID, dta) >> :
                    dt, dta \in WlDescriptions }

\* descriptions that are never filled in
wl_descriptions_default(hks) == DefaultDescriptions

\* the loop of lines 67-75: d starts as the default and takes the description
\* of each entry whose id is one of the two
RECURSIVE wl_fill(_, _)
wl_fill(d, hks) ==
    IF hks = << >> THEN d
    ELSE wl_fill(IF Head(hks).id = WL_TRIGGER_ID
                 THEN HotKeyConfig(Head(hks).description, d.toggle_active)
                 ELSE IF Head(hks).id = WL_TOGGLE_ACTIVE_ID
                 THEN HotKeyConfig(d.trigger, Head(hks).description)
                 ELSE d,
                 Tail(hks))
wl_descriptions(hks) == wl_fill(DefaultDescriptions, hks)

\* ---- hotkeys() into hotkeys_wl (hotkey.rs:187-193, 44-60): the manager
\* exists, the session is a Wayland one, wl_register_all is called
HotkeysWl ==
    /\ Running /\ hkPc = "start"
    /\ hkPc' = "wl_register"
    /\ up' = TRUE
    /\ UNCHANGED << appVars, taskq, chan, paVars, config, disk, registered, lock, rbPc,
                    rbChange, changeq, osq, dpPc, dpEvent, down, nFaults, nRec, obsVars >>
    /\ UNCHANGED << srcVars, wlVars, histVars >>

\* ---- wl_register_all returns Err (line 60): hotkeys_wl returns it and
\* hotkeys() sends GlobalShortcutsFail (lines 198-200)
WlRegisterFail ==
    /\ Running /\ hkPc = "wl_register"
    /\ hkPc' = "failed"
    /\ chan' = Append(chan, Entry("GlobalShortcutsFail", NoArg, "", ""))
    /\ UNCHANGED << appVars, taskq, paVars, config, disk, registered, lock, rbPc, rbChange,
                    changeq, osq, dpPc, dpEvent, down, up, nFaults, nRec, obsVars >>
    /\ UNCHANGED << srcVars, wlVars, histVars >>

\* ---- wl_register_all returns Ok: the portal holds a binding for each action,
\* the bindings-changed task is spawned and the event loop starts (lines 62-98)
WlRegisterOk ==
    /\ Running /\ hkPc = "wl_register"
    /\ hkPc' = "portal"
    /\ wl_hotkeys' \in WlBindings
    /\ wlPc' = "query"
    /\ dpPc' = "recv"
    /\ UNCHANGED << appVars, taskq, chan, paVars, config, disk, registered, lock, rbPc,
                    rbChange, changeq, osq, dpEvent, down, up, nFaults, nRec, obsVars >>
    /\ UNCHANGED << srcVars, wlChanged, nChanges, histVars >>

\* ---- bindings-changed task, lines 66-76: query the bindings, send the
\* descriptions
WlQuery ==
    /\ Running /\ wlPc = "query"
    /\ Len(chan) < ChanCap
    /\ chan' = Append(chan, Entry("UpdateHotKeyDescriptions", wl_descriptions(wl_hotkeys),
                                  "", ""))
    /\ wlPc' = "wait"
    /\ UNCHANGED << appVars, taskq, paVars, hkVars, down, up, nFaults, nRec, obsVars >>
    /\ UNCHANGED << srcVars, wl_hotkeys, wlChanged, nChanges, histVars >>

\* ---- bindings-changed task, lines 78-88: a notification is received
WlWait ==
    /\ Running /\ wlPc = "wait" /\ wlChanged > 0
    /\ wlChanged' = wlChanged - 1
    /\ wlPc' = "query"
    /\ UNCHANGED << appVars, taskq, chan, paVars, hkVars, down, up, nFaults, nRec, obsVars >>
    /\ UNCHANGED << srcVars, wl_hotkeys, nChanges, histVars >>

\* ---- bindings-changed task: no receiver, or its receive fails; the task returns
WlWaitFails ==
    /\ Running /\ wlPc = "wait" /\ wlChanged = 0
    /\ wlPc' = "ended"
    /\ UNCHANGED << appVars, taskq, chan, paVars, hkVars, down, up, nFaults, nRec, obsVars >>
    /\ UNCHANGED << srcVars, wl_hotkeys, wlChanged, nChanges, histVars >>

\* ---- the user edits a binding in the system's settings: the portal holds
\* new descriptions and notifies
WlChange ==
    /\ Running /\ hkPc = "portal" /\ Pending < MaxPending /\ nChanges < MaxChanges
    /\ \E hks \in WlBindings : hks # wl_hotkeys /\ wl_hotkeys' = hks
    /\ wlChanged' = wlChanged + 1
    /\ nChanges' = nChanges + 1
    /\ UNCHANGED << appVars, taskq, chan, paVars, hkVars, down, up, nFaults, nRec, obsVars >>
    /\ UNCHANGED << srcVars, wlPc, histVars >>

\* ---- the portal reports a press or a release of one of the two actions
WlEvent ==
    /\ Running /\ hkPc = "portal" /\ Pending < MaxPending
    /\ \E id \in {WL_TRIGGER_ID, WL_TOGGLE_ACTIVE_ID}, state \in {"Pressed", "Released"} :
         osq' = Append(osq, Event(id, state))
    /\ UNCHANGED << appVars, taskq, chan, paVars, hkPc, config, disk, registered, lock,
                    rbPc, rbChange, changeq, dpPc, dpEvent, down, up, nFaults, nRec, obsVars >>
    /\ UNCHANGED << srcVars, wlVars, histVars >>

\* ---- event loop, lines 98-100: an event is received and handled with the
\* fixed ids
WlDispatch ==
    /\ Running /\ hkPc = "portal" /\ dpPc = "recv" /\ osq # << >>
    /\ chan' = send_now_or_never(chan, handle_hotkey_press(Head(osq), WlHotkeyIds))
    /\ osq' = Tail(osq)
    /\ UNCHANGED << appVars, taskq, paVars, hkPc, config, disk, registered, lock,
                    rbPc, rbChange, changeq, dpPc, dpEvent, down, up, nFaults, nRec, obsVars >>
    /\ UNCHANGED << srcVars, wlVars, histVars >>

\* ---- the event loop's blocking receive fails (line 98): the loop ends,
\* hotkeys_wl returns Ok(()) and hotkeys() sends nothing (lines 102, 198)
WlRecvFails ==
    /\ Running /\ hkPc = "portal" /\ dpPc = "recv"
    /\ dpPc' = "ended"
    /\ hkPc' = "ended"
    /\ UNCHANGED << appVars, taskq, chan, paVars, config, disk, registered, lock,
                    rbPc, rbChange, changeq, osq, dpEvent, down, up, nFaults, nRec, obsVars >>
    /\ UNCHANGED << srcVars, wlVars, histVars >>

----------------------------------------------------------------------------
\* The runtime delivering messages to App::update, and the user.
ScenarioB == << "ToggleActivePressed", "TriggerPressed", "TriggerReleased",
                "ToggleActivePressed" >>
ScenOff == [k |-> 0]

\* The run's progress along ScenarioB when update is handed the message m of
\* a hotkey event: the scenario starts from Inactive with nothing pending, and
\* goes on while each event finds the follow-ups of the one before processed.
ScenStep(m) ==
    IF m.ev = "" THEN (IF m.t = "GlobalShortcutsFail" THEN ScenOff ELSE scen)
    ELSE IF scen.k \in 1..3 /\ taskq = << >> /\ m.ev = ScenarioB[scen.k + 1]
    THEN [k |-> scen.k + 1]
    ELSE IF taskq = << >> /\ ~active /\ ~muted /\ backend = "Loaded" /\ m.ev = ScenarioB[1]
    THEN [k |-> 1]
    ELSE ScenOff

\* the set_mute calls update(m) issues (app.rs:195), for the scenario's log
MuteCalls(m) ==
    IF m.t = "SetMuted" /\ backend = "Loaded" THEN << set_mute_arg(active, m.a) >> ELSE << >>

\* The observer of repeated events.  A hotkey event counts (n = 1) when update
\* is handed its message with no follow-up of anything earlier pending; it is
\* a repeat (n = 2) when the event that counted before it was the same and
\* update processed nothing since but that event's own follow-ups.  A repeat
\* records (active, muted) as it found them.
Repeat(ev, n, act, mut) == [ev |-> ev, n |-> n, act |-> act, mut |-> mut]
NoRepeat == Repeat("", 0, FALSE, FALSE)
RepeatStep(m) ==
    IF m.ev = "" \/ taskq # << >> THEN NoRepeat
    ELSE IF rpt.n >= 1 /\ rpt.ev = m.ev THEN Repeat(m.ev, 2, active, muted)
    ELSE Repeat(m.ev, 1, FALSE, FALSE)

\* a message of the hotkey stream reaches update
AppRecv ==
    /\ appPc = "idle" /\ chan # << >>
    /\ update(Head(chan))
    /\ chan' = Tail(chan)
    /\ taskq' = taskq \o update_tasks(Head(chan))
    /\ scen' = ScenStep(Head(chan))
    /\ muteLog' = IF ScenStep(Head(chan)).k = 0 THEN << >>
                  ELSE IF ScenStep(Head(chan)).k = 1 THEN MuteCalls(Head(chan))
                  ELSE muteLog \o MuteCalls(Head(chan))
    /\ rpt' = RepeatStep(Head(chan))
    /\ UNCHANGED << hkPc, config, disk, registered, lock, rbPc, rbChange, osq, dpPc,
                    dpEvent, down, up, nRec, paLog, svm, svmPrev, rebinding, lastRebind >>
    /\ UNCHANGED << srcVars, wlVars, startCfg, dpWas, lastDispatch >>

\* a message returned as a Task reaches update
AppTask ==
    /\ appPc = "idle" /\ taskq # << >>
    /\ update(Head(taskq))
    /\ taskq' = Tail(taskq) \o update_tasks(Head(taskq))
    /\ muteLog' = IF scen.k = 0 THEN << >> ELSE muteLog \o MuteCalls(Head(taskq))
    /\ UNCHANGED << chan, hkPc, config, disk, registered, lock, rbPc, rbChange, osq, dpPc,
                    dpEvent, down, up, nRec, scen, paLog, svm, svmPrev, rebinding, lastRebind >>
    /\ UNCHANGED << srcVars, wlVars, histVars >>

\* a message from the window or the tray reaches update
UserMsg(m) ==
    /\ appPc = "idle" /\ up /\ Pending < MaxPending
    /\ update(m)
    /\ taskq' = taskq \o update_tasks(m)
    /\ nRec' = IF m.t = "StartHotKeyRecording" THEN nRec + 1 ELSE nRec
    /\ rpt' = NoRepeat
    /\ UNCHANGED << chan, hkPc, config, disk, registered, lock, rbPc, rbChange, osq, dpPc,
                    dpEvent, down, up, paLog, svm, svmPrev, rebinding, lastRebind >>
    /\ UNCHANGED << srcVars, wlVars, startCfg, dpWas, lastDispatch >>

\* the "Enable" checkbox (app.rs:412-428): shown once a microphone is selected
UserSetActive ==
    /\ backend = "Loaded" /\ recording_hotkey = "None" /\ src_name # "None"
    /\ UserMsg(Entry("SetActive", ~active, "", ""))
    /\ scen' = ScenOff /\ muteLog' = << >>

\* the tray's "Enable Push-to-Talk" item (tray.rs:83-90)
TrayToggle ==
    /\ UserMsg(Entry("ToggleActive", NoArg, "", ""))
    /\ scen' = ScenOff /\ muteLog' = << >>

\* the microphone pick list (app.rs:523-529)
UserChooseMicrophone ==
    /\ backend = "Loaded" /\ recording_hotkey = "None"
    /\ \E mic \in Mics : UserMsg(Entry("ChooseMicrophone", mic, "", ""))
    /\ scen' = ScenOff /\ muteLog' = << >>

\* the Exit button or the tray's Exit item
UserExit ==
    /\ UserMsg(Entry("Exit", NoArg, "", ""))
    /\ scen' = ScenOff /\ muteLog' = << >>

\* a hotkey label is clicked (app.rs:575-603), at most max times in a run
StartRecording(max) ==
    /\ backend = "Loaded" /\ recording_hotkey = "None" /\ nRec < max
    /\ \E r \in {"Trigger", "ToggleActive"} : UserMsg(Entry("StartHotKeyRecording", r, "", ""))
    /\ UNCHANGED << scen, muteLog >>

UserStartRecording ==
    StartRecording(MaxRecordings)

\* the same where one recording may follow another
UserStartRecordingAgain ==
    StartRecording(MaxRebinds)

\* the recorder ends with the keys the user pressed (app.rs:320-379)
RecorderStrings == {"Insert", "F9", "CTRL+SUPER+p", "CTRL", ""}
UserFinishRecording ==
    /\ recording_hotkey # "None"
    /\ \E s \in RecorderStrings : UserMsg(Entry("FinishHotKeyRecording", s, "", ""))
    /\ UNCHANGED << scen, muteLog >>

\* ---- the window's own messages: ShowWindow (the Task of App::new, SIGUSR1,
\* the IPC socket, the tray: app.rs:108-144, tray.rs:76) and Close (the
\* close_requests subscription, app.rs:310) reach update whenever it is not
\* running, whatever else is pending.  show_window and close_window
\* (app.rs:260-295) return window Tasks that yield no message.
WindowSignals == { Entry(t, NoArg, "", "window") : t \in {"ShowWindow", "Close"} }
WindowSignal ==
    /\ appPc = "idle"
    /\ \E m \in WindowSignals :
         /\ update(m)
         /\ taskq' = taskq \o update_tasks(m)
    /\ UNCHANGED << chan, hkPc, config, disk, registered, lock, rbPc, rbChange, osq, dpPc,
                    dpEvent, down, up, nRec, scen, muteLog, paLog, svm, svmPrev, rebinding,
                    lastRebind >>
    /\ rpt' = NoRepeat
    /\ UNCHANGED << srcVars, wlVars, startCfg, dpWas, lastDispatch >>

\* any message of the kinds that act on the audio bridge reaches update,
\* whatever the window offers at the moment (app.rs:161-167)
BridgeMessages ==
    { Entry("ChooseMicrophone", mic, "", "") : mic \in Mics }
    \cup { Entry("SetActive", b, "", "") : b \in BOOLEAN }
    \cup { Entry("SetMuted", b, "", "") : b \in BOOLEAN }
AnyBridgeMessage ==
    /\ \E m \in BridgeMessages : UserMsg(m)
    /\ scen' = ScenOff /\ muteLog' = << >>

\* the window is drawn: select_mic asks for the microphone list (app.rs:523-529)
ViewSelectMic ==
    /\ appPc = "idle" /\ backend = "Loaded" /\ recording_hotkey = "None"
    /\ \E res \in {"Success", "Fail"} :
         input_devs' = Listing(res, get_input_devices(sources, res))
    /\ UNCHANGED << appVars, taskq, chan, paVars, hkVars, down, up, nFaults, nRec,
                    obsVars, sources, wlVars, histVars >>

----------------------------------------------------------------------------
\* The state after App::new: PulseAudioState::init succeeded or failed; the
\* server may hold another application's remap module or a virtual microphone
\* an earlier run left behind.
ServerModulesAtStart == { << >>, << ForeignRemap >>, << VirtualMic("mic0") >> }

\* what the config file can hold for a role: nothing, or any string
StoredConfigs == { Config(t, ta) : t, ta \in {"None"} \cup Strings }

Init ==
    /\ active = FALSE /\ muted = FALSE
    /\ backend \in {"Loaded", "Error"}
    /\ hk_descriptions = DefaultDescriptions
    /\ change_hotkey_tx = FALSE
    /\ recording_hotkey = "None"
    /\ appPc = "idle" /\ cmMic = "None" /\ cmFirst = FALSE
    /\ taskq = << >> /\ chan = << >>
    /\ src_name = "None"
    /\ modules \in ServerModulesAtStart
    /\ srvMute = FALSE
    /\ hkPc = "start"
    /\ config = ConfigDefault /\ disk \in StoredConfigs
    /\ registered = {}
    /\ lock = "free"
    /\ rbPc = "off" /\ rbChange = NoChange /\ changeq = << >>
    /\ osq = << >> /\ dpPc = "off" /\ dpEvent = NoEvent
    /\ down = {}
    /\ up = FALSE
    /\ nFaults = 0 /\ nRec = 0
    /\ out = NoOut
    /\ lastCall = "None"
    /\ lastIn = Processed("", "", FALSE)
    /\ muteLog = << >> /\ paLog = << >>
    /\ scen = ScenOff
    /\ svm = NoCall /\ svmPrev = "None"
    /\ rebinding = FALSE
    /\ lastRebind = NoRebind
    /\ sources \in SourceLists
    /\ input_devs = NoListing
    /\ wl_hotkeys = << >> /\ wlPc = "off" /\ wlChanged = 0 /\ nChanges = 0
    /\ startCfg = ConfigDefault /\ dpWas = "None"
    /\ lastDispatch = NoDispatch
    /\ rpt = NoRepeat

\* a fresh start: nothing stored, the usual sources
FreshStart == disk = ConfigDefault /\ sources = SourcesAtStart

\* ---- the engine with the audio bridge: the listener starts, then each hotkey
\* event is one step
Next ==
    \/ AppRecv \/ AppTask
    \/ SvmRemove \/ SvmLoad \/ SvmMute
    \/ UserSetActive \/ TrayToggle \/ UserChooseMicrophone \/ UserExit
    \/ HotkeysFail \/ HotkeysStart
    \/ RebindSetupLock \/ RebindSetup
    \/ HotkeyEvent

InitEngine == Init /\ FreshStart /\ modules = << >>

Spec == InitEngine /\ [][Next]_vars

\* ---- the engine with the window's messages arriving between the others
NextWindow ==
    \/ Next
    \/ WindowSignal

SpecWindow == InitEngine /\ [][NextWindow]_vars

\* ---- the audio bridge under the user's commands, without hotkey events
NextPulse ==
    \/ AppRecv \/ AppTask
    \/ SvmRemove \/ SvmLoad \/ SvmMute
    \/ UserSetActive \/ TrayToggle \/ UserChooseMicrophone \/ UserExit
    \/ HotkeysFail \/ HotkeysStart
    \/ RebindSetupLock \/ RebindSetup

InitPulse == Init /\ FreshStart

SpecPulse == InitPulse /\ [][NextPulse]_vars

\* ---- the Direct backend step by step: keys, the dispatch loop, the recorder
\* and the rebind task, with the engine processing what they send
NextDirect ==
    \/ AppRecv \/ AppTask
    \/ UserStartRecording \/ UserFinishRecording
    \/ HotkeysFail \/ HotkeysStart
    \/ RebindSetupLock \/ RebindSetup \/ RebindRecv \/ RebindUnregLock \/ RebindUnregister
    \/ DispatchRecv \/ DispatchLock \/ DispatchHandle
    \/ KeyPress \/ KeyRelease \/ KeyRepeat

InitDirect == Init /\ FreshStart /\ backend = "Loaded" /\ modules = << >>

SpecDirect == InitDirect /\ [][NextDirect]_vars

\* ---- the engine under ToggleActive messages alone, from the hotkey and
\* from the tray: nothing else produces a SetActive
NextToggle ==
    \/ AppRecv \/ AppTask
    \/ TrayToggle
    \/ HotkeysStart \/ RebindSetupLock \/ RebindSetup
    \/ HotkeyEvent

SpecToggle == InitDirect /\ [][NextToggle]_vars

\* ---- the recorder and the rebind task, one rebind after another, with the
\* UI processing the descriptions the task publishes
NextRebind ==
    \/ AppRecv
    \/ UserStartRecordingAgain \/ UserFinishRecording
    \/ HotkeysStart
    \/ RebindSetupLock \/ RebindSetup \/ RebindRecv \/ RebindUnregLock \/ RebindUnregister

SpecRebind == InitDirect /\ [][NextRebind]_vars

\* ---- the engine where the microphone pick list is the only thing the user
\* touches besides the Trigger key: no SetActive but the one choose_microphone
\* returns
NextChoose ==
    \/ AppRecv \/ AppTask
    \/ SvmRemove \/ SvmLoad \/ SvmMute
    \/ UserChooseMicrophone
    \/ HotkeysStart \/ RebindSetupLock \/ RebindSetup
    \/ TriggerEvent

SpecChoose == InitDirect /\ [][NextChoose]_vars

\* ---- the dispatch loop under a burst of Trigger events, update taking
\* messages from the channel at its own pace
NextBurst ==
    \/ AppRecv
    \/ HotkeysStart \/ RebindSetupLock \/ RebindSetup
    \/ TriggerBurst
    \/ DispatchRecv \/ DispatchLock \/ DispatchHandle

SpecBurst == InitDirect /\ [][NextBurst]_vars

\* ---- the listener from its start to its end, under either backend and with
\* whatever the config file holds: the facility or a registration may fail,
\* and so may the blocking receive
NextStartup ==
    \/ AppRecv
    \/ HotkeysFail \/ HotkeysStart
    \/ RebindSetupLock \/ RebindSetup \/ RebindSetupRejected
    \/ DispatchRecvFails
    \/ HotkeysWl \/ WlRegisterFail \/ WlRegisterOk
    \/ WlQuery \/ WlWaitFails
    \/ WlRecvFails

InitStartup == Init /\ sources = SourcesAtStart /\ backend = "Loaded" /\ modules = << >>

SpecStartup == InitStartup /\ [][NextStartup]_vars

\* ---- the Portal backend: its events are routed, and the messages of a
\* rebind request reach update as under the Direct backend (the window itself
\* offers no link for them, app.rs:466-469)
NextPortal ==
    \/ AppRecv \/ AppTask
    \/ UserStartRecording \/ UserFinishRecording
    \/ HotkeysWl \/ WlRegisterFail \/ WlRegisterOk
    \/ WlQuery
    \/ WlEvent \/ WlDispatch

InitPortal == Init /\ FreshStart /\ backend = "Loaded" /\ modules = << >>

SpecPortal == InitPortal /\ [][NextPortal]_vars

\* ---- the Portal backend while the user edits the bindings in the system's
\* settings and a rebind is requested in the window; the tasks are scheduled
\* fairly: the bindings-changed task and the runtime handing messages to
\* update each run when they can
NextPortalLive ==
    \/ AppRecv
    \/ UserStartRecording \/ UserFinishRecording
    \/ HotkeysWl \/ WlRegisterFail \/ WlRegisterOk
    \/ WlQuery \/ WlWait \/ WlChange

SpecPortalLive ==
    /\ InitPortal /\ [][NextPortalLive]_vars
    /\ WF_vars(WlQuery) /\ WF_vars(WlWait)
    /\ WF_vars(AppRecv)

\* ---- shutdown: a microphone is chosen and the application is closed
\* while the listener starts, under either backend
NextShutdown ==
    \/ AppRecv \/ AppTask
    \/ UserChooseMicrophone \/ SvmRemove \/ SvmLoad \/ SvmMute
    \/ UserExit
    \/ HotkeysFail \/ HotkeysStart \/ RebindSetupLock \/ RebindSetup
    \/ HotkeysWl \/ WlRegisterFail \/ WlRegisterOk \/ WlQuery

SpecShutdown == InitPortal /\ [][NextShutdown]_vars

\* ---- the application after PulseAudioState::init failed: a virtual
\* microphone of an earlier run is still loaded, the listener starts, and
\* messages of every kind arrive
NextError ==
    \/ AppRecv \/ AppTask
    \/ AnyBridgeMessage \/ TrayToggle \/ UserExit
    \/ HotkeysFail \/ HotkeysStart
    \/ RebindSetupLock \/ RebindSetup
    \/ HotkeyEvent

InitError == Init /\ FreshStart /\ backend = "Error" /\ modules = << VirtualMic("mic0") >>

SpecError == InitError /\ [][NextError]_vars

\* ---- the microphone list: any sources the server may report, and the
\* window drawn
NextList ==
    \/ ViewSelectMic

InitList == Init /\ disk = ConfigDefault /\ backend = "Loaded" /\ modules = << >>

SpecList == InitList /\ [][NextList]_vars

----------------------------------------------------------------------------
\* Properties.

\* the Trigger accelerator of the current config is physically held
TriggerHeld == ConfigHotkeys(config).trigger \in down
\* nothing is on its way to update and update is not running
Quiescent == appPc = "idle" /\ taskq = << >> /\ chan = << >> /\ osq = << >> /\ dpPc = "recv"

\* C1: whenever nothing is pending, muted is true exactly when active is true
\* and the Trigger key is not held.
C1_MutedIffActiveAndNotHeld ==
    (Quiescent /\ backend = "Loaded") => (muted = (active /\ ~TriggerHeld))

\* C2: along ScenarioB from Inactive with a loaded backend, each event's
\* follow-ups processed before the next, the set_mute calls are the prefix of
\* [true, false, true, false] for the events so far, and after the fourth
\* event the state is Inactive.
C2_ScenarioB ==
    (scen.k >= 1 /\ taskq = << >>) =>
        /\ muteLog = SubSeq(<< TRUE, FALSE, TRUE, FALSE >>, 1, scen.k)
        /\ (scen.k = 4 => ~active /\ ~muted)
C2_Witness ==
    scen.k = 4 /\ taskq = << >> /\ muteLog = << TRUE, FALSE, TRUE, FALSE >> /\ ~active

Devices == OurModules(modules)
\* a set_virtual_mic call has returned and update is idle again
CallReturned == appPc = "idle" /\ svm.ret \in {"early", "full"}

RoutedRole(msgs) ==
    IF msgs = << >> THEN "None"
    ELSE IF msgs[1].t = "SetMuted" THEN "Trigger" ELSE "ToggleActive"
\* the rebind task has applied a change and finished the register block
RebindComplete == lastRebind.role # "None" /\ ~rebinding

\* C5: after a rebind of a role to X has completed, a pressed event with X's
\* id is routed to that role and an event with the role's old id to no role.
C5_RebindRouting ==
    [][ (DispatchHandle /\ RebindComplete) =>
          /\ (dpEvent.id = HotKeyId(lastRebind.new) /\ dpEvent.state = "Pressed") =>
                 RoutedRole(SubSeq(chan', Len(chan) + 1, Len(chan'))) = lastRebind.role
          /\ (dpEvent.id = HotKeyId(lastRebind.old) /\ lastRebind.old # lastRebind.new) =>
                 chan' = chan ]_vars

\* C6: the dispatch loop never holds the lock while the old accelerators are
\* unregistered and the new ones are not yet registered and published.
C6_LockSpansRebind == ~(lock = "dispatch" /\ rebinding)

\* what a failed set_mute in set_muted(m) must leave behind
FailureCommitted(m) ==
    /\ muted' = (active /\ m)
    /\ active' = active
    /\ out'.reports = 1
    /\ appPc' = "idle" /\ backend' = "Loaded"

\* C7: when the set_mute call of set_muted(m) fails, muted becomes
\* active /\ m, the failure is reported once, and update goes on.
C7_FailureIsolation ==
    [][ /\ (AppRecv /\ Head(chan).t = "SetMuted" /\ out'.res = "Fail") =>
               FailureCommitted(Head(chan).a)
        /\ (AppTask /\ Head(taskq).t = "SetMuted" /\ out'.res = "Fail") =>
               FailureCommitted(Head(taskq).a) ]_vars
C7_Witness ==
    out.res = "Fail" /\ out.reports = 1 /\ active /\ muted /\ ~srvMute /\ appPc = "idle"

\* C8: a TriggerPressed event processed right after a TriggerPressed event
\* leaves (active, muted) as it found them.
C8_PressIdempotent ==
    [][ (AppRecv /\ Head(chan).ev = "TriggerPressed" /\ lastIn.ev = "TriggerPressed") =>
            (active' = active /\ muted' = muted) ]_vars
C8_Witness ==
    lastIn.ev = "TriggerPressed" /\ lastIn.rep /\ active /\ ~muted /\ backend = "Loaded"

\* C9: a Trigger press or release processed while active is false leaves
\* active false and issues no set_mute call.
C9_InactiveNoEffect ==
    [][ (AppRecv /\ ~active /\ Head(chan).ev \in {"TriggerPressed", "TriggerReleased"}) =>
            (active' = FALSE /\ muted' = FALSE /\ out'.calls = << >>) ]_vars

\* C10: when set_virtual_mic("mic0") and then set_virtual_mic("mic1") have run
\* to their end with every request served, the requests of the second call are
\* one unload of the mic0 device and then one load, and the device left has
\* master mic1.
C10_DeviceSwap ==
    (appPc = "idle" /\ svmPrev = "mic0" /\ svm.mic = "mic1" /\ Nominal(svm)) =>
        /\ paLog = << [op |-> "unload", master |-> "mic0"], [op |-> "load", master |-> "mic1"] >>
        /\ Devices = << VirtualMic("mic1") >>
C10_Witness ==
    /\ appPc = "idle" /\ svmPrev = "mic0" /\ svm.mic = "mic1" /\ Nominal(svm)
    /\ modules = << ForeignRemap, VirtualMic("mic1") >>

\* the names of a list of sources other than the virtual microphone's, in the
\* list's order
RECURSIVE OtherNames(_)
OtherNames(srcs) ==
    IF srcs = << >> THEN << >>
    ELSE IF Head(srcs) \in {NoName, VIRTUALMIC_NAME} THEN OtherNames(Tail(srcs))
    ELSE << Head(srcs) >> \o OtherNames(Tail(srcs))

\* C11: whatever sources the server reports, the list get_input_devices
\* returns never holds the virtual microphone's name, and when the poll loop
\* did not fail it holds every other reported name, in the server's order.
C11_InputDevices ==
    input_devs.res # "None" =>
        /\ \A k \in 1..Len(input_devs.vec) : input_devs.vec[k] # VIRTUALMIC_NAME
        /\ input_devs.res = "Success" => input_devs.vec = OtherNames(sources)
C11_Witness ==
    /\ input_devs.res = "Success"
    /\ sources = << "mic1", VIRTUALMIC_NAME, "mic0" >>
    /\ input_devs.vec = << "mic1", "mic0" >>

\* what the recorder can produce that is no accelerator: modifiers alone, or
\* nothing
UnparseableStrings == {"CTRL", ""}
\* update processes FinishHotKeyRecording(s) while a recording is in progress
FinishesRecording(s) ==
    recording_hotkey # "None" /\ UserMsg(Entry("FinishHotKeyRecording", s, "", ""))
\* nothing of the bindings changes in the step
BindingsUntouched ==
    /\ changeq' = changeq /\ rbChange' = rbChange
    /\ registered' = registered
    /\ config' = config /\ disk' = disk
    /\ hk_descriptions' = hk_descriptions /\ chan' = chan /\ taskq' = taskq

\* C12: when a recording is finished with a string that is no accelerator,
\* no change is sent to the rebind task and the registered accelerators, the
\* stored configuration and the descriptions stay as they are.
C12_UnparseableRejected ==
    [][ \A s \in UnparseableStrings : FinishesRecording(s) => BindingsUntouched ]_vars
C12_Witness ==
    /\ nRec = 1 /\ recording_hotkey = "None" /\ change_hotkey_tx
    /\ changeq = << >> /\ rbPc = "recv" /\ rbChange = NoChange /\ lastRebind = NoRebind
    /\ registered = {Insert, CtrlSuperP}
    /\ disk = StoreHotkeys(DefaultHotKeys)
    /\ hk_descriptions = published_descriptions(DefaultHotKeys)

\* the role an event is to be routed to under the bindings hks: ToggleActive
\* acts on presses only
RouteUnder(event, hks) ==
    IF BoundRole(event, hks) = "ToggleActive" /\ event.state # "Pressed" THEN "None"
    ELSE BoundRole(event, hks)

\* C20: the message the dispatch loop sends for an event is the one of the
\* role the event's id is bound to when the event is dispatched: an event
\* received before a rebind and dispatched after it goes by the new bindings.
C20_ResolvedAtDispatch ==
    [][ DispatchHandle =>
          RoutedRole(SubSeq(chan', Len(chan) + 1, Len(chan'))) =
              RouteUnder(dpEvent, ConfigHotkeys(config)) ]_vars
C20_Witness ==
    /\ lastDispatch.was = "ToggleActive" /\ lastDispatch.now = "Trigger"
    /\ RoutedRole(lastDispatch.sent) = "Trigger"

\* the accelerator each string a config file can hold stands for
StoredAccelerator ==
    ("Insert" :> Insert) @@ ("F9" :> F9) @@ ("control+super+KeyP" :> CtrlSuperP)
    @@ ("CTRL+SUPER+p" :> CtrlSuperP)
\* the binding of a role: its stored accelerator, or the default when nothing
\* is stored or what is stored stands for no accelerator
BindingFor(stored, dflt) ==
    IF stored \in DOMAIN StoredAccelerator THEN StoredAccelerator[stored] ELSE dflt

\* C13: under the Direct backend, before any rebind, the Trigger binding is
\* the stored trigger accelerator, or Insert when it is absent or unparseable,
\* and the ToggleActive binding the stored one, or CTRL+SUPER+P, each role on
\* its own; after the register block nothing else is registered.
C13_DefaultBindings ==
    hkPc = "direct" =>
        /\ ConfigHotkeys(config).trigger = BindingFor(startCfg.trigger_hotkey, Insert)
        /\ ConfigHotkeys(config).toggle_active =
               BindingFor(startCfg.toggle_active_hotkey, CtrlSuperP)
        /\ registered \subseteq { BindingFor(startCfg.trigger_hotkey, Insert),
                                   BindingFor(startCfg.toggle_active_hotkey, CtrlSuperP) }
C13_Witness ==
    /\ hkPc = "direct" /\ rbPc = "recv"
    /\ startCfg = Config("CTRL", "F9")
    /\ registered = {Insert, F9}
    /\ hk_descriptions = HotKeyConfig("Insert", "F9")

\* at least one accelerator of the bindings is not registered after the
\* register block has run
RegistrationRejected ==
    /\ hkPc = "direct" /\ rbPc = "recv"
    /\ ~({ConfigHotkeys(config).trigger, ConfigHotkeys(config).toggle_active}
              \subseteq registered)

\* C14: once the hotkey facility has failed to initialize or a registration
\* has been rejected, and every message sent has been processed, the backend
\* is in the error state.
C14_FailureSurfaced ==
    ((hkPc = "failed" \/ RegistrationRejected) /\ chan = << >> /\ appPc = "idle")
        => backend = "Error"

\* C15: when the event loop has ended after a failed receive, a
\* GlobalShortcutsFail message has been sent: it is on its way to update or
\* has put the backend in the error state.
C15_TerminalEvent ==
    hkPc = "ended" =>
        \/ backend = "Error"
        \/ \E k \in 1..Len(chan) : chan[k].t = "GlobalShortcutsFail"

\* C16: after PulseAudioState::init has failed the backend stays in the error
\* state whatever messages arrive, active and muted stay false, and no
\* set_mute, load or unload is issued: the server's modules and mute flag
\* are as they were, even after Exit.
C16_InitFailurePersists ==
    /\ backend = "Error" /\ ~active /\ ~muted
    /\ lastCall = "None" /\ out.calls = << >>
    /\ svm = NoCall /\ paLog = << >> /\ src_name = "None"
    /\ appPc \in {"idle", "exited"}
    /\ modules = << VirtualMic("mic0") >> /\ srvMute = FALSE
C16_Witness ==
    /\ backend = "Error" /\ hkPc = "direct"
    /\ lastIn.by = "ToggleActive" /\ taskq = << >> /\ ~active
    /\ modules = << VirtualMic("mic0") >>

\* C17: after Exit, when no audio operation of the run has failed, no
\* virtual-microphone module is loaded on the server.
C17_NoModuleAfterExit ==
    (appPc = "exited" /\ nFaults = 0) => Devices = << >>

\* the role the Portal backend's fixed ids give an event
FixedRoute(event) ==
    IF event.id = 0 THEN "Trigger"
    ELSE IF event.id = 1 /\ event.state = "Pressed" THEN "ToggleActive" ELSE "None"

\* C18: under the Portal backend no step, a recording started and finished
\* included, sends a change to a rebind task, registers or unregisters an
\* accelerator or touches the stored configuration, and every event is
\* routed by the fixed ids 0 (Trigger) and 1 (ToggleActive).
C18_PortalRebindIgnored ==
    [][ hkPc = "portal" =>
          /\ changeq' = << >> /\ rbPc' = "off"
          /\ registered' = {}
          /\ config' = config /\ disk' = disk
          /\ WlDispatch =>
                 RoutedRole(SubSeq(chan', Len(chan) + 1, Len(chan'))) = FixedRoute(Head(osq))
      ]_vars
C18_Witness ==
    /\ hkPc = "portal" /\ nRec = 1 /\ recording_hotkey = "None"
    /\ changeq = << >> /\ registered = {} /\ disk = ConfigDefault
    /\ lastIn.ev = "ToggleActivePressed"

\* the descriptions the portal holds for the two roles
CurrentDescriptions ==
    HotKeyConfig((CHOOSE hk \in {wl_hotkeys[k] : k \in 1..Len(wl_hotkeys)} : hk.id = 0).description,
                 (CHOOSE hk \in {wl_hotkeys[k] : k \in 1..Len(wl_hotkeys)} : hk.id = 1).description)
\* the UI holds them
DescriptionsShown == hkPc = "portal" /\ hk_descriptions = CurrentDescriptions

\* C19: under the Portal backend, from the start and from every edit of the
\* bindings on, the UI eventually holds the descriptions the portal then
\* holds for both roles, unless the bindings are edited again first.
C19_DescriptionsFollow ==
    \A n \in 0..MaxChanges :
        (hkPc = "portal" /\ nChanges = n) ~> (DescriptionsShown \/ nChanges > n)
C19_Witness ==
    /\ DescriptionsShown /\ nChanges = MaxChanges /\ wlPc = "wait" /\ wlChanged = 0
    /\ hk_descriptions = HotKeyConfig("<F9>", "<Insert>")

\* the descriptions last published to the UI: those of the last
\* UpdateHotKeyDescriptions message still on its way, else those update holds
PublishedIn(q) == { k \in 1..Len(q) : q[k].t = "UpdateHotKeyDescriptions" }
LastPublished ==
    IF PublishedIn(chan) = {} THEN hk_descriptions
    ELSE chan[CHOOSE k \in PublishedIn(chan) : \A j \in PublishedIn(chan) : j <= k].a

C22_WindowSignalNoEffect ==
    [][ WindowSignal =>
          /\ active' = active /\ muted' = muted /\ backend' = backend
          /\ config' = config /\ disk' = disk /\ registered' = registered
          /\ hk_descriptions' = hk_descriptions /\ changeq' = changeq
          /\ recording_hotkey' = recording_hotkey
          /\ modules' = modules /\ srvMute' = srvMute /\ src_name' = src_name
          /\ out'.calls = << >> /\ lastCall' = lastCall /\ paLog' = paLog
          /\ nFaults' = nFaults /\ appPc' = "idle"
          /\ taskq' = taskq /\ chan' = chan ]_vars
C22_Witness ==
    /\ lastIn.by = "window" /\ active /\ ~muted /\ TriggerHeld
    /\ Devices = << VirtualMic("mic1") >> /\ ~srvMute
    /\ taskq # << >> /\ chan # << >>

\* the repeat and all it caused have been processed
RepeatProcessed == rpt.n = 2 /\ taskq = << >> /\ appPc = "idle"

\* C23: when an event of the same role and edge as the event before it, with
\* nothing in between, has been processed with its follow-ups, active and
\* muted are what they were when it arrived.
C23_RepeatNoOp ==
    RepeatProcessed => (active = rpt.act /\ muted = rpt.mut)

\* C24: when set_virtual_mic goes on after its wait for the load, it issues
\* set_mute(true) after the load request and records its argument as the
\* source, and the device is muted on the server when the server loaded the
\* module and the set_mute was served; when the poll loop fails in the wait
\* the call returns with the recorded source as it was and no set_mute issued.
C24_LoadThenMute ==
    [][ /\ SvmMute =>
               /\ out'.calls = << TRUE >> /\ lastCall' = "T"
               /\ paLog # << >> /\ paLog[Len(paLog)] = [op |-> "load", master |-> cmMic]
               /\ src_name' = cmMic /\ svm'.ret = "full"
               /\ (svm.loaded /\ out'.res = "Success") => srvMute'
        /\ (SvmLoad /\ svm'.ret = "early") =>
               /\ src_name' = src_name /\ appPc' = "idle"
               /\ out' = out /\ lastCall' = lastCall ]_vars
C24_Witness ==
    /\ appPc = "idle" /\ svm.ret = "early" /\ svm.mic = "mic1"
    /\ svmPrev = "mic0" /\ src_name = "mic0"

\* every event, message and change has been processed and no key is held
AtRest ==
    /\ Quiescent /\ rbPc = "recv" /\ changeq = << >> /\ recording_hotkey = "None"
    /\ down = {}

\* C25: with the backend loaded, once every pending event has been processed
\* and no key is held, an active engine is muted.
C25_MutedAtRest ==
    (AtRest /\ backend = "Loaded" /\ active) => muted

\* update is handed the SetActive that a ToggleActive returned
ToggleFollowUp ==
    AppTask /\ Head(taskq).t = "SetActive" /\ Head(taskq).by = "ToggleActive"

\* C26: with the backend loaded and ToggleActive the only source of
\* SetActive, the SetActive each ToggleActive returned flips active when it
\* is processed, so n ToggleActive messages leave active changed exactly
\* when n is odd.
C26_ToggleFlipsOnce ==
    [][ (ToggleFollowUp /\ backend = "Loaded") => active' = ~active ]_vars

\* C27: with a virtual device loaded, nothing pending and no audio operation
\* failed so far, the server's mute flag of the device equals muted.
C27_ServerMuteIsMuted ==
    (Devices # << >> /\ Quiescent /\ backend = "Loaded" /\ nFaults = 0) => srvMute = muted

OtherRole(role) == IF role = "Trigger" THEN "ToggleActive" ELSE "Trigger"

\* C28: when the rebind task applies a change recorded for one role, the
\* accelerator of the other role is after the change what it was before.
C28_OtherRoleKept ==
    [][ RebindUnregister =>
          Accelerator(ConfigHotkeys(config'), OtherRole(rbChange.role)) =
              Accelerator(ConfigHotkeys(config), OtherRole(rbChange.role)) ]_vars

\* what the dispatch loop's step adds to the channel
SentByDispatch == SubSeq(chan', Len(chan) + 1, Len(chan'))

\* C29: for every event the dispatch loop handles, with the ids of the
\* bindings then in force: an event with the Trigger id sends exactly
\* SetMuted(state = Released); any other event with the ToggleActive id
\* sends exactly ToggleActive when pressed; every other event (a
\* ToggleActive release, an unknown id) sends nothing.  With both roles on
\* one id the event goes to Trigger.
C29_RoutingFunction ==
    [][ DispatchHandle =>
          /\ dpEvent.id = HotkeyIds(config).trigger =>
                 /\ Len(SentByDispatch) = 1
                 /\ SentByDispatch[1].t = "SetMuted"
                 /\ SentByDispatch[1].a = (dpEvent.state = "Released")
          /\ (/\ dpEvent.id # HotkeyIds(config).trigger
              /\ dpEvent.id = HotkeyIds(config).toggle_active
              /\ dpEvent.state = "Pressed") =>
                 /\ Len(SentByDispatch) = 1
                 /\ SentByDispatch[1].t = "ToggleActive"
          /\ (/\ dpEvent.id # HotkeyIds(config).trigger
              /\ ~(dpEvent.id = HotkeyIds(config).toggle_active /\ dpEvent.state = "Pressed")) =>
                 SentByDispatch = << >> ]_vars
C29_Witness ==
    /\ HotkeyIds(config).trigger = HotkeyIds(config).toggle_active
    /\ lastDispatch.event = Event(HotkeyIds(config).toggle_active, "Pressed")
    /\ lastDispatch.was = "ToggleActive"
    /\ lastDispatch.sent # << >>
    /\ lastDispatch.sent[1].t = "SetMuted" /\ lastDispatch.sent[1].a = FALSE

\* the channel's buffer is full
ChannelFull == Len(chan) >= ChanCap

ChoiceSettled == CallReturned /\ taskq = << >>
\* a step of a choose_microphone call that found a source recorded
LaterChoiceStep == (appPc # "idle" \/ appPc' # "idle") /\ ~cmFirst /\ ~cmFirst'

\* C31: a choice made with no source recorded enables push-to-talk: once the
\* Tasks it led to have been delivered active is true, muted is true right
\* after the last of them, and muted is true whenever nothing is pending and
\* the Trigger key is not held; no step of a choose_microphone call changes
\* active or muted, and a call that found a source recorded returns no Task.
C31_FirstChoiceEnables ==
    /\ [](ChoiceSettled =>
             /\ active
             /\ lastIn.by = "SetActiveT" => muted
             /\ (chan = << >> /\ ~TriggerHeld) => muted)
    /\ [][ (appPc # "idle" \/ appPc' # "idle") => UNCHANGED << active, muted >> ]_vars
    /\ [][ LaterChoiceStep => taskq' = taskq ]_vars
C31_Witness ==
    /\ ChoiceSettled /\ svm.ret = "full" /\ svmPrev # "None" /\ svm.mic # svmPrev
    /\ lastIn.by = "SetActiveT" /\ active /\ muted /\ ~TriggerHeld

====
